---- MODULE Spec2Model ----
(***************************************************************************)
(* Model of the validation and import pipeline of                          *)
(* awesome-european-opensource: scripts/validator.py (Validator, its       *)
(* ledger and directory validation) and scripts/importer.py (sanitizers,   *)
(* slug and filename generation, ProjectImporter, the import loop).        *)
(*                                                                         *)
(* Strings are sequences of characters; a character is a one-token string. *)
(* Tokens with more than one letter name characters that have no plain     *)
(* ASCII spelling: "TAB", "NL", "CR", "NUL", "BSL" (backslash),            *)
(* "E_ACUTE" (U+00E9), "COMB_ACUTE" (U+0301), "NBSP" (U+00A0),             *)
(* "CJK" (an ideograph), "QUOTE" (the double quote).                       *)
(***************************************************************************)
EXTENDS Integers, Sequences, FiniteSets, TLC

(***************************************************************************)
(* Bounds of the model.                                                    *)
(***************************************************************************)
MaxBatch == 3
MaxOps == 2
MaxFiles == 2
MaxLen == 3

(***************************************************************************)
(* Character classes (Python 3 str / re / unicodedata semantics,           *)
(* restricted to the characters of the model).                             *)
(***************************************************************************)
LowerSeq == <<"a", "b", "c", "d", "e", "f", "g", "h", "i", "j", "k", "l", "m",
              "n", "o", "p", "q", "r", "s", "t", "u", "v", "w", "x", "y", "z">>
UpperSeq == <<"A", "B", "C", "D", "E", "F", "G", "H", "I", "J", "K", "L", "M",
              "N", "O", "P", "Q", "R", "S", "T", "U", "V", "W", "X", "Y", "Z">>
DigitSeq == <<"0", "1", "2", "3", "4", "5", "6", "7", "8", "9">>
Range(s) == {s[i] : i \in DOMAIN s}
IndexOf(c, s) == CHOOSE i \in DOMAIN s : s[i] = c
LowerAscii == Range(LowerSeq)
UpperAscii == Range(UpperSeq)
Digits == Range(DigitSeq)

\* str.lower() on the characters of the model
Lower(c) == IF c \in UpperAscii THEN LowerSeq[IndexOf(c, UpperSeq)] ELSE c

\* re \s (Unicode): the whitespace characters
WhiteSpace == {" ", "TAB", "NL", "CR", "NBSP"}
\* unicodedata.category(c)[0] == "C": control and format characters
ControlChars == {"TAB", "NL", "CR", "NUL"}
\* unicodedata.category(c) == "Mn": combining marks
CombiningMarks == {"COMB_ACUTE"}
\* re \w (Unicode): alphanumerics of any script and the underscore
WordChars == LowerAscii \cup UpperAscii \cup Digits \cup {"_", "E_ACUTE", "CJK"}

(***************************************************************************)
(* Sequence helpers standing for the str and re primitives used.           *)
(***************************************************************************)
RECURSIVE Filter(_, _)
\* "".join(c for c in s if c in keep)  /  re.sub("[^keep]", "", s)
Filter(s, keep) ==
    IF s = << >> THEN << >>
    ELSE IF Head(s) \in keep THEN <<Head(s)>> \o Filter(Tail(s), keep)
         ELSE Filter(Tail(s), keep)

RECURSIVE Remove(_, _)
\* "".join(c for c in s if c not in drop)
Remove(s, drop) ==
    IF s = << >> THEN << >>
    ELSE IF Head(s) \in drop THEN Remove(Tail(s), drop)
         ELSE <<Head(s)>> \o Remove(Tail(s), drop)

\* str.lower()
LowerStr(s) == [i \in DOMAIN s |-> Lower(s[i])]

StartsWith(s, p) == Len(s) >= Len(p) /\ SubSeq(s, 1, Len(p)) = p
EndsWith(s, p) == Len(s) >= Len(p) /\ SubSeq(s, Len(s) - Len(p) + 1, Len(s)) = p
Drop(s, n) == SubSeq(s, n + 1, Len(s))

RECURSIVE Replace(_, _, _)
\* str.replace(pat, rep): every non-overlapping occurrence, left to right
Replace(s, pat, rep) ==
    IF s = << >> THEN << >>
    ELSE IF StartsWith(s, pat) THEN rep \o Replace(Drop(s, Len(pat)), pat, rep)
         ELSE <<Head(s)>> \o Replace(Tail(s), pat, rep)

RECURSIVE CollapseRuns(_, _, _)
\* re.sub("[cls]+", rep, s): every maximal run of characters of cls becomes rep
CollapseRuns(s, cls, rep) ==
    IF s = << >> THEN << >>
    ELSE IF Head(s) \in cls
         THEN IF Len(s) > 1 /\ s[2] \in cls
              THEN CollapseRuns(Tail(s), cls, rep)
              ELSE rep \o CollapseRuns(Tail(s), cls, rep)
         ELSE <<Head(s)>> \o CollapseRuns(Tail(s), cls, rep)

RECURSIVE LStrip(_, _)
LStrip(s, cls) ==
    IF s # << >> /\ Head(s) \in cls THEN LStrip(Tail(s), cls) ELSE s

RECURSIVE RStrip(_, _)
RStrip(s, cls) ==
    IF s # << >> /\ s[Len(s)] \in cls THEN RStrip(SubSeq(s, 1, Len(s) - 1), cls)
    ELSE s

\* str.strip(chars) / str.strip()
Strip(s, cls) == RStrip(LStrip(s, cls), cls)

RECURSIVE NFKC(_)
\* unicodedata.normalize("NFKC", s): compatibility mapping, then composition
NFKC(s) ==
    IF s = << >> THEN << >>
    ELSE IF Head(s) = "NBSP" THEN <<" ">> \o NFKC(Tail(s))
    ELSE IF Head(s) = "e" /\ Len(s) > 1 /\ s[2] = "COMB_ACUTE"
         THEN <<"E_ACUTE">> \o NFKC(Drop(s, 2))
    ELSE <<Head(s)>> \o NFKC(Tail(s))

RECURSIVE NFD(_)
\* unicodedata.normalize("NFD", s): canonical decomposition
NFD(s) ==
    IF s = << >> THEN << >>
    ELSE IF Head(s) = "E_ACUTE" THEN <<"e", "COMB_ACUTE">> \o NFD(Tail(s))
    ELSE <<Head(s)>> \o NFD(Tail(s))

(***************************************************************************)
(* importer.py: sanitizers                                                 *)
(***************************************************************************)
sanitize_text(value) ==
    LET n0 == NFKC(value)
        n1 == Replace(n0, <<"BSL", "t">>, <<" ">>)
        n2 == Replace(n1, <<"BSL", "n">>, <<" ">>)
        n3 == Replace(n2, <<"BSL", "r">>, <<" ">>)
        n4 == Replace(n3, <<"TAB">>, <<" ">>)
        n5 == Replace(n4, <<"NL">>, <<" ">>)
        n6 == Replace(n5, <<"CR">>, <<" ">>)
        n7 == Remove(n6, ControlChars)
    IN  Strip(CollapseRuns(n7, WhiteSpace, <<" ">>), WhiteSpace)

sanitize_name(value) ==
    LET normalized == Filter(sanitize_text(value),
                             WordChars \cup WhiteSpace \cup {"-", ".", "'", "&"})
    IN  Strip(CollapseRuns(normalized, WhiteSpace, <<" ">>), WhiteSpace)

sanitize_description(value) ==
    LET normalized == Filter(sanitize_text(value),
                             WordChars \cup WhiteSpace
                             \cup {"-", ".", ",", ";", ":", "!", "?", "(", ")",
                                   "'", "QUOTE", "/", "&"})
    IN  Strip(CollapseRuns(normalized, WhiteSpace, <<" ">>), WhiteSpace)

(***************************************************************************)
(* importer.py: slug and filename                                          *)
(***************************************************************************)
\* normalize_name without .strip("-")
normalize_name_unstripped(name) ==
    LET normalized_name == sanitize_name(name)
        name_without_accents == Remove(NFD(normalized_name), CombiningMarks)
        kept == Filter(name_without_accents,
                       LowerAscii \cup UpperAscii \cup Digits
                       \cup WhiteSpace \cup {"-"})
        slug(slug_base) ==
            IF slug_base = << >> THEN <<"e", "n", "t", "i", "t", "y">>
            ELSE LowerStr(slug_base)
    IN  slug(CollapseRuns(kept, WhiteSpace \cup {"_", "-"}, <<"-">>))

\* normalize_name
normalize_name(name) ==
    LET normalized_name == sanitize_name(name)
        name_without_accents == Remove(NFD(normalized_name), CombiningMarks)
        kept == Filter(name_without_accents,
                       LowerAscii \cup UpperAscii \cup Digits
                       \cup WhiteSpace \cup {"-"})
        slug(slug_base) ==
            IF slug_base = << >> THEN <<"e", "n", "t", "i", "t", "y">>
            ELSE LowerStr(slug_base)
    IN  slug(Strip(CollapseRuns(kept, WhiteSpace \cup {"_", "-"}, <<"-">>),
                   {"-"}))

\* ord(c)
Ord(c) ==
    IF c \in Digits THEN 47 + IndexOf(c, DigitSeq)
    ELSE IF c \in UpperAscii THEN 64 + IndexOf(c, UpperSeq)
    ELSE IF c \in LowerAscii THEN 96 + IndexOf(c, LowerSeq)
    ELSE CASE c = "TAB" -> 9 [] c = "NL" -> 10 [] c = "CR" -> 13 [] c = "NUL" -> 0
           [] c = " " -> 32 [] c = "!" -> 33 [] c = "QUOTE" -> 34 [] c = "#" -> 35
           [] c = "&" -> 38 [] c = "'" -> 39 [] c = "(" -> 40 [] c = ")" -> 41
           [] c = "+" -> 43 [] c = "," -> 44 [] c = "-" -> 45 [] c = "." -> 46
           [] c = "/" -> 47 [] c = ":" -> 58 [] c = ";" -> 59 [] c = "?" -> 63
           [] c = "BSL" -> 92 [] c = "_" -> 95 [] c = "NBSP" -> 160
           [] c = "E_ACUTE" -> 233 [] c = "COMB_ACUTE" -> 769
           [] c = "CJK" -> 26085

HexDigit(n) ==
    <<"0", "1", "2", "3", "4", "5", "6", "7", "8", "9",
      "a", "b", "c", "d", "e", "f">>[n + 1]

\* Stand-in for hashlib.sha256(s.encode()).hexdigest()[:6]: a deterministic
\* function of the characters of s with a result of six hexadecimal digits.
RECURSIVE Digest(_, _)
Digest(s, h) ==
    IF s = << >> THEN h
    ELSE Digest(Tail(s), (h * 31 + Ord(Head(s))) % 16777216)

sha256_hex6(s) ==
    LET hex6(h) ==
            <<HexDigit((h \div 1048576) % 16), HexDigit((h \div 65536) % 16),
              HexDigit((h \div 4096) % 16), HexDigit((h \div 256) % 16),
              HexDigit((h \div 16) % 16), HexDigit(h % 16)>>
    IN  hex6(Digest(s, 7))

generate_filename(name, unique_identifier) ==
    LET filename(normalized_name) ==
            LET unique_string == normalized_name \o <<":">> \o unique_identifier
                hash_suffix == sha256_hex6(unique_string)
            IN  normalized_name \o <<"-">> \o hash_suffix
                \o <<".", "j", "s", "o", "n">>
    IN  filename(normalize_name(name))

(***************************************************************************)
(* importer.py: get_timestamp.  An instant is the UTC wall clock           *)
(* [hour, minute, second, microsecond] of the model's day.                 *)
(***************************************************************************)
Pad2(n) == <<HexDigit(n \div 10), HexDigit(n % 10)>>

Pad6(n) ==
    <<HexDigit((n \div 100000) % 10), HexDigit((n \div 10000) % 10),
      HexDigit((n \div 1000) % 10), HexDigit((n \div 100) % 10),
      HexDigit((n \div 10) % 10), HexDigit(n % 10)>>

ModelDate == <<"2", "0", "2", "6", "-", "0", "1", "-", "0", "2">>

\* datetime.isoformat() of an aware UTC datetime: the fraction is printed
\* only when microsecond is not 0
isoformat(t) ==
    ModelDate \o <<"T">> \o Pad2(t.hour) \o <<":">> \o Pad2(t.minute)
    \o <<":">> \o Pad2(t.second)
    \o (IF t.microsecond # 0 THEN <<".">> \o Pad6(t.microsecond) ELSE << >>)
    \o <<"+", "0", "0", ":", "0", "0">>

\* s[:-13]
DropLast13(s) == IF Len(s) <= 13 THEN << >> ELSE SubSeq(s, 1, Len(s) - 13)

get_timestamp(t) == DropLast13(isoformat(t)) \o <<"Z">>

(***************************************************************************)
(* Raw records (csv.DictReader rows): functions from column names to       *)
(* values.  A column absent from the header is absent from the row; a      *)
(* short line leaves the value None.                                       *)
(***************************************************************************)
None == <<"None">>
\* str(value)
Str(v) == IF v = None THEN <<"N", "o", "n", "e">> ELSE v
\* truth value of row.get(key)
Truthy(row, key) == key \in DOMAIN row /\ row[key] # None /\ row[key] # << >>

RECURSIVE FirstMissing(_, _)
\* the first key of keys that row lacks (the KeyError of row[key]), or << >>
FirstMissing(row, keys) ==
    IF keys = << >> THEN << >>
    ELSE IF Head(keys) \notin DOMAIN row THEN <<Head(keys)>>
         ELSE FirstMissing(row, Tail(keys))

OwnerColumn == "Who is the owner of this project?"
Word_Organization ==
    <<"O", "r", "g", "a", "n", "i", "z", "a", "t", "i", "o", "n">>
Word_Individual == <<"I", "n", "d", "i", "v", "i", "d", "u", "a", "l">>
Word_Community == <<"C", "o", "m", "m", "u", "n", "i", "t", "y">>

Raise(exc, arg) == [raised |-> TRUE, exc |-> exc, arg |-> arg]
Return(v) == [raised |-> FALSE, value |-> v]

\* owner_type, read from the raw value
read_owner_type_unsanitized(row) == Str(row[OwnerColumn])
\* ProjectImporter._build_owner_data: owner_type = sanitize_text(row[...])
read_owner_type(row) == sanitize_text(Str(row[OwnerColumn]))

\* ProjectImporter._build_owner_data: "if row.get(column): owner[...] = ..."
with_description(row, owner, column) ==
    IF Truthy(row, column)
    THEN Return(owner @@ ("description" :> sanitize_description(Str(row[column]))))
    ELSE Return(owner)

\* ProjectImporter._build_owner_data
build_owner_data(row) ==
    LET build(owner_type) ==
        IF owner_type = Word_Organization THEN
            LET miss == FirstMissing(row, <<"Company Name", "Company Website",
                                            "Your company is a Startup?">>)
            IN  IF miss # << >> THEN Raise("KeyError", miss[1])
                ELSE with_description(row,
                         [type |-> "organization",
                          name |-> sanitize_name(Str(row["Company Name"])),
                          url_website |->
                              sanitize_text(Str(row["Company Website"])),
                          is_a_startup |->
                              sanitize_text(Str(row["Your company is a Startup?"]))],
                         "Company Description")
        ELSE IF owner_type = Word_Individual THEN
            IF "Owner Full Name or Username" \notin DOMAIN row
            THEN Raise("KeyError", "Owner Full Name or Username")
            ELSE Return([type |-> "individual",
                         name |-> sanitize_name(
                                      Str(row["Owner Full Name or Username"]))])
        ELSE IF owner_type = Word_Community THEN
            LET miss == FirstMissing(row, <<"Community Name", "Community Website">>)
            IN  IF miss # << >> THEN Raise("KeyError", miss[1])
                ELSE with_description(row,
                         [type |-> "community",
                          name |-> sanitize_name(Str(row["Community Name"])),
                          url_website |->
                              sanitize_text(Str(row["Community Website"]))],
                         "Community Description")
        ELSE Raise("ValueError", owner_type)
    IN  IF OwnerColumn \notin DOMAIN row THEN Raise("KeyError", OwnerColumn)
        ELSE build(read_owner_type(row))

\* The output directory, relative to PROJECT_ROOTDIR; the disk is keyed by
\* paths relative to PROJECT_ROOTDIR, so os.path.join(PROJECT_ROOTDIR, rel)
\* names the file at key rel.
OutputDir == <<"o">>
os_path_join(a, b) == a \o <<"/">> \o b
\* os.path.relpath(os.path.join(output_dir, filename), PROJECT_ROOTDIR)
relpath_in_output_dir(filename) == os_path_join(OutputDir, filename)

\* transform_row with the instant of the call in the unique identifier
transform_row_stamped_identifier(row, t) ==
    LET miss == FirstMissing(row, <<"Name", "Repository url", "Category",
                                    "Country", "Platform", "License", "Language">>)
        documented(source) ==
            IF Truthy(row, "Documentation url")
            THEN source @@ ("url_documentation" :>
                     sanitize_text(Str(row["Documentation url"])))
            ELSE source
        source(repository_url) ==
            documented([platform |-> sanitize_text(Str(row["Platform"])),
                        url_repository |-> repository_url,
                        license |-> sanitize_text(Str(row["License"])),
                        language |-> sanitize_text(Str(row["Language"]))])
        entity(name, repository_url, filename, owner) ==
            IF owner.raised THEN owner
            ELSE Return(
                [name |-> name,
                 category |-> LowerStr(sanitize_text(Str(row["Category"]))),
                 country |-> sanitize_text(Str(row["Country"])),
                 description |->
                     sanitize_description(IF "Description" \in DOMAIN row
                                          THEN Str(row["Description"]) ELSE << >>),
                 source |-> source(repository_url),
                 metadata |-> [filename |-> filename,
                               filepath |-> relpath_in_output_dir(filename),
                               created_at |-> get_timestamp(t)],
                 owner |-> owner.value])
        named(name, repository_url) ==
            entity(name, repository_url,
                   generate_filename(name, repository_url \o get_timestamp(t)),
                   build_owner_data(row))
    IN  IF miss # << >> THEN Raise("KeyError", miss[1])
        ELSE named(sanitize_name(Str(row["Name"])),
                   sanitize_text(Str(row["Repository url"])))

\* ProjectImporter.transform_row, called at instant t
transform_row(row, t) ==
    LET miss == FirstMissing(row, <<"Name", "Repository url", "Category",
                                    "Country", "Platform", "License", "Language">>)
        documented(source) ==
            IF Truthy(row, "Documentation url")
            THEN source @@ ("url_documentation" :>
                     sanitize_text(Str(row["Documentation url"])))
            ELSE source
        source(repository_url) ==
            documented([platform |-> sanitize_text(Str(row["Platform"])),
                        url_repository |-> repository_url,
                        license |-> sanitize_text(Str(row["License"])),
                        language |-> sanitize_text(Str(row["Language"]))])
        entity(name, repository_url, filename, owner) ==
            IF owner.raised THEN owner
            ELSE Return(
                [name |-> name,
                 category |-> LowerStr(sanitize_text(Str(row["Category"]))),
                 country |-> sanitize_text(Str(row["Country"])),
                 description |->
                     sanitize_description(IF "Description" \in DOMAIN row
                                          THEN Str(row["Description"]) ELSE << >>),
                 source |-> source(repository_url),
                 metadata |-> [filename |-> filename,
                               filepath |-> relpath_in_output_dir(filename),
                               created_at |-> get_timestamp(t)],
                 owner |-> owner.value])
        named(name, repository_url) ==
            entity(name, repository_url,
                   generate_filename(name, repository_url),
                   build_owner_data(row))
    IN  IF miss # << >> THEN Raise("KeyError", miss[1])
        ELSE named(sanitize_name(Str(row["Name"])),
                   sanitize_text(Str(row["Repository url"])))

(***************************************************************************)
(* validator.py: the ledger (Validator.metadata) and validate              *)
(***************************************************************************)
\* Validator.__init__: self.metadata
NewMetadata ==
    [success |-> 0, failed |-> 0, warning |-> 0, total |-> 0,
     errors |-> << >>, warnings |-> << >>]

Message(text, arg) == [text |-> text, arg |-> arg]

\* Variant of save_state that does not count the warnings it records
save_state_uncounted_warnings(md, name, message, key) ==
    IF key \notin {"errors", "warnings"} THEN md
    ELSE LET entry == [name |-> name, message |-> message]
             appended == [md EXCEPT ![key] = Append(@, entry)]
         IN  IF key = "errors" THEN [appended EXCEPT !.failed = @ + 1]
             ELSE appended

\* Variant of save_state that puts the new record first
save_state_prepending(md, name, message, key) ==
    IF key \notin {"errors", "warnings"} THEN md
    ELSE LET entry == [name |-> name, message |-> message]
             prepended == [md EXCEPT ![key] = <<entry>> \o @]
         IN  IF key = "errors" THEN [prepended EXCEPT !.failed = @ + 1]
             ELSE [prepended EXCEPT !.warning = @ + 1]

\* Validator.save_state; an unsupported key raises before any change
save_state(md, name, message, key) ==
    IF key \notin {"errors", "warnings"} THEN md
    ELSE LET entry == [name |-> name, message |-> message]
             appended == [md EXCEPT ![key] = Append(@, entry)]
         IN  IF key = "errors" THEN [appended EXCEPT !.failed = @ + 1]
             ELSE [appended EXCEPT !.warning = @ + 1]

\* The compiled project schema (schemas/project.json through fastjsonschema):
\* the required members of an entity document and its closed category list.
SchemaCategories == {<<"d", "e", "v">>, <<"w", "e", "b">>}
SchemaAccepts(data) ==
    /\ {"name", "category", "country", "description", "source", "owner",
        "metadata"} \subseteq DOMAIN data
    /\ {"filename", "filepath", "created_at"} \subseteq DOMAIN data.metadata
    /\ data.category \in SchemaCategories

\* os.path.isfile / os.path.isdir on the modelled disk
isfile(dsk, path) == path \in DOMAIN dsk /\ dsk[path].kind = "file"

\* json.load of a stored file: a syntax error raises JSONDecodeError
json_load(file) ==
    IF file.body.t = "garbage" THEN Raise("JSONDecodeError", << >>)
    ELSE Return(file.body)

Unknown == <<"U", "n", "k", "n", "o", "w", "n">>

\* Variant of validate_try that records an existing destination as an error
validate_try_duplicate_as_error(md, data, check_file_exists, dsk) ==
    LET entity_name == IF "name" \in DOMAIN data THEN data.name ELSE Unknown
        reject(msg) ==
            LET md1 == save_state(md, entity_name, msg, "errors")
            IN  [md |-> md1, ending |-> "schema_error",
                 ret |-> Return([kind |-> "errors", errors |-> md1.errors])]
    IN
    IF ~SchemaAccepts(data) THEN reject(Message("SchemaError", << >>))
    ELSE IF /\ check_file_exists
            /\ isfile(dsk, data.metadata.filepath)
         THEN reject(Message("already exists", data.metadata.filename))
         ELSE [md |-> [md EXCEPT !.success = @ + 1],
               ending |-> "success",
               ret |-> Return([kind |-> "data", data |-> data])]

\* The try block of Validator.validate (schema check, duplicate check,
\* success) with its except clauses, before the finally clause.
validate_try(md, data, check_file_exists, dsk) ==
    LET entity_name == IF "name" \in DOMAIN data THEN data.name ELSE Unknown
        reject(msg) ==
            LET md1 == save_state(md, entity_name, msg, "errors")
            IN  [md |-> md1, ending |-> "schema_error",
                 ret |-> Return([kind |-> "errors", errors |-> md1.errors])]
    IN
    IF ~SchemaAccepts(data) THEN reject(Message("SchemaError", << >>))
    ELSE IF /\ check_file_exists
            /\ "metadata" \in DOMAIN data
            /\ "filepath" \in DOMAIN data.metadata
            /\ isfile(dsk, data.metadata.filepath)
         THEN IF "filename" \notin DOMAIN data.metadata
              THEN reject(Message("KeyError", <<"filename">>))
              ELSE [md |-> save_state(md, entity_name,
                                      Message("already exists",
                                              data.metadata.filename),
                                      "warnings"),
                    ending |-> "duplicate",
                    ret |-> Return([kind |-> "data", data |-> data])]
         ELSE [md |-> [md EXCEPT !.success = @ + 1],
               ending |-> "success",
               ret |-> Return([kind |-> "data", data |-> data])]

\* Validator.validate(filename, data, check_file_exists).  A filename or a
\* data argument that is None, "" or {} is the empty sequence.
validate(md, filename, data, check_file_exists, dsk) ==
    IF filename = << >> /\ DOMAIN data = {}
    THEN [md |-> md, ending |-> "value_error",
          ret |-> Raise("ValueError", << >>)]
    ELSE IF filename # << >> /\ ~isfile(dsk, filename)
    THEN [md |-> save_state(md, filename, Message("File not found", filename),
                            "warnings"),
          ending |-> "not_found",
          ret |-> Return([kind |-> "data", data |-> << >>])]
    ELSE
    LET loaded == IF filename # << >> THEN json_load(dsk[filename])
                  ELSE Return([t |-> "object", obj |-> data])
    IN
    IF loaded.raised
    THEN [md |-> md, ending |-> "unparseable", ret |-> loaded]
    ELSE IF loaded.value.t # "object"
    THEN [md |-> md, ending |-> "not_an_object",
          ret |-> Raise("AttributeError", << >>)]
    ELSE LET r == validate_try(md, loaded.value.obj, check_file_exists, dsk)
         IN  [r EXCEPT !.md.total = @ + 1]

(***************************************************************************)
(* validator.py: Validator.execute, helpers of the directory scan          *)
(***************************************************************************)
DotJson == <<".", "j", "s", "o", "n">>

RECURSIVE StrLess(_, _)
\* a < b on Python strings (code point order)
StrLess(a, b) ==
    IF b = << >> THEN FALSE
    ELSE IF a = << >> THEN TRUE
    ELSE IF Head(a) = Head(b) THEN StrLess(Tail(a), Tail(b))
    ELSE Ord(Head(a)) < Ord(Head(b))

RECURSIVE InsertSorted(_, _)
\* insert x after every element whose key is not greater (stable)
InsertSorted(x, sorted) ==
    IF sorted = << >> THEN <<x>>
    ELSE IF StrLess(x[1], Head(sorted)[1]) THEN <<x>> \o sorted
    ELSE <<Head(sorted)>> \o InsertSorted(x, Tail(sorted))

RECURSIVE SortedByKey(_)
\* sorted(json_files, key=lambda x: x[0])
SortedByKey(files) ==
    IF files = << >> THEN << >>
    ELSE InsertSorted(files[Len(files)],
                      SortedByKey(SubSeq(files, 1, Len(files) - 1)))

RECURSIVE collect(_, _, _, _)
\* The first loop of Validator.execute over os.listdir(dirpath) in the order
\* listing: the ledger after the skipped entries, and json_files
collect(listing, md, json_files, dsk) ==
    IF listing = << >> THEN [md |-> md, json_files |-> json_files]
    ELSE
    LET entry == Head(listing)
        filepath == os_path_join(OutputDir, entry)
    IN  IF ~isfile(dsk, filepath)
        THEN collect(Tail(listing),
                     save_state(md, entry, Message("Not a file", << >>),
                                "warnings"),
                     json_files, dsk)
        ELSE IF ~EndsWith(entry, DotJson)
        THEN collect(Tail(listing),
                     save_state(md, entry,
                                Message("Invalid file extension (expected .json)",
                                        << >>),
                                "warnings"),
                     json_files, dsk)
        ELSE collect(Tail(listing), md,
                     Append(json_files,
                            <<Replace(entry, DotJson, << >>), filepath>>),
                     dsk)

(***************************************************************************)
(* Inputs of the model: raw records, instants, directory entries           *)
(***************************************************************************)
RowCommon(name, url, category) ==
    ("Name" :> name) @@ ("Repository url" :> url) @@ ("Category" :> category)
    @@ ("Country" :> <<"I", "T">>) @@ ("Description" :> <<"d">>)
    @@ ("Platform" :> <<"g">>) @@ ("License" :> <<"M">>)
    @@ ("Language" :> <<"c">>) @@ ("Documentation url" :> << >>)

OwnerIndividual(n) ==
    (OwnerColumn :> Word_Individual) @@ ("Owner Full Name or Username" :> n)

OwnerOrganization ==
    (OwnerColumn :> Word_Organization) @@ ("Company Name" :> <<"c", "o">>)
    @@ ("Company Website" :> <<"w">>) @@ ("Your company is a Startup?" :> <<"n", "o">>)
    @@ ("Company Description" :> <<"d">>)

\* 1: conformant; 2: conformant, other destination; 3: rejected by the
\* schema, same destination as 1; 4: Individual without its name column;
\* 5: unknown owner type
Rows ==
    << RowCommon(<<"A">>, <<"u">>, <<"D", "e", "v">>) @@ OwnerIndividual(<<"x">>),
       RowCommon(<<"E_ACUTE", " ", "b">>, <<"u">>, <<"w", "e", "b">>)
           @@ OwnerOrganization,
       RowCommon(<<"A">>, <<"u">>, <<"b", "a", "d">>) @@ OwnerIndividual(<<"x">>),
       RowCommon(<<"A">>, <<"v">>, <<"d", "e", "v">>)
           @@ (OwnerColumn :> Word_Individual),
       RowCommon(<<"A">>, <<"v">>, <<"d", "e", "v">>) @@ (OwnerColumn :> <<"x">>) >>

\* The instants at which the clock is read, in increasing order
Instants ==
    << [hour |-> 9, minute |-> 30, second |-> 0, microsecond |-> 250000],
       [hour |-> 9, minute |-> 30, second |-> 1, microsecond |-> 0] >>

\* transform_row is a function of the row and of the clock reading alone:
\* its value for row number r at instant number t
Transformed ==
    [r \in DOMAIN Rows |->
        [t \in DOMAIN Instants |-> transform_row(Rows[r], Instants[t])]]

RECURSIVE SeqsUpTo(_, _)
\* the sequences over S of length at most n
SeqsUpTo(S, n) ==
    IF n = 0 THEN {<< >>}
    ELSE LET shorter == SeqsUpTo(S, n - 1)
         IN  shorter \cup {Append(q, x) : q \in shorter, x \in S}

Batches == SeqsUpTo(DOMAIN Rows, MaxBatch)

\* Contents of a path of the disk
Absent == [kind |-> "absent"]
Directory == [kind |-> "dir"]
File(body) == [kind |-> "file", body |-> body]
Garbage == [t |-> "garbage"]
JsonArray == [t |-> "array"]
JsonObject(d) == [t |-> "object", obj |-> d]

\* json.dump(validated_data, json_file, indent=2, ensure_ascii=False): the
\* file holds the JSON object of the document
json_dump(d) == File(JsonObject(d))

\* What an earlier import, at the first instant, made of each row
StoredDocs == [r \in DOMAIN Rows |-> Transformed[r][1]]

\* The rows whose document an earlier import has saved
DestRows(docs) ==
    {r \in DOMAIN docs : ~docs[r].raised /\ SchemaAccepts(docs[r].value)}
DestNames(docs) == {docs[r].value.metadata.filename : r \in DestRows(docs)}
Name_a_json == <<"a">> \o DotJson
Name_a_json_json == <<"a">> \o DotJson \o DotJson
Name_a_b_json == <<"a", "-", "b">> \o DotJson
Name_n_txt == <<"n", ".", "t", "x", "t">>
Name_d == <<"d">>
EntryNames(docs) ==
    DestNames(docs)
    \cup {Name_a_json, Name_a_json_json, Name_a_b_json, Name_n_txt, Name_d}
Paths(docs) == {os_path_join(OutputDir, n) : n \in EntryNames(docs)}

\* What a path may hold before the first operation
Candidates(docs, path) ==
    IF path = os_path_join(OutputDir, Name_a_json)
    THEN {File(Garbage), File(JsonArray), json_dump(docs[1].value),
          json_dump(docs[3].value)}
    ELSE IF path = os_path_join(OutputDir, Name_a_json_json)
    THEN {json_dump(docs[2].value)}
    ELSE IF path = os_path_join(OutputDir, Name_a_b_json)
    THEN {json_dump(docs[1].value)}
    ELSE IF path = os_path_join(OutputDir, Name_n_txt) THEN {File(Garbage)}
    ELSE IF path = os_path_join(OutputDir, Name_d) THEN {Directory}
    ELSE {json_dump(docs[r].value) :
            r \in {q \in DestRows(docs) : docs[q].value.metadata.filepath = path}}

\* The disks over the paths P with at most MaxFiles entries
Disks(docs, P) ==
    UNION {
        {[p \in P |-> IF p \in S THEN f[p] ELSE Absent] :
            f \in {g \in [S -> UNION {Candidates(docs, p) : p \in S}] :
                      \A p \in S : g[p] \in Candidates(docs, p)}}
        : S \in {T \in SUBSET P : Cardinality(T) <= MaxFiles}}

InitDisks ==
    LET over(docs) == Disks(docs, Paths(docs))
    IN  over(StoredDocs)

\* os.listdir(dirpath): the entries present, in an arbitrary order
Entries(dsk) ==
    {Drop(p, Len(OutputDir) + 1) : p \in {q \in DOMAIN dsk : dsk[q].kind # "absent"}}
Listings(dsk) ==
    LET perms(E) ==
            {q \in [1..Cardinality(E) -> E] :
                \A i, j \in 1..Cardinality(E) : i # j => q[i] # q[j]}
    IN  perms(Entries(dsk))

(***************************************************************************)
(* State                                                                   *)
(***************************************************************************)
VARIABLES
    metadata,     \* Validator.metadata, the ledger
    source_data,  \* Validator.source_data
    disk,         \* the files below PROJECT_ROOTDIR
    now,          \* index in Instants of the last clock reading
    pc,           \* "idle", "import" (loop of Importer.execute), "validate"
                  \* (second loop of Validator.execute), "exited" (main()
                  \* has returned and the process is over)
    ctx,          \* the operation in progress or last finished:
                  \* "importer_main", "validator_main",
                  \* "validator_run", "validator_execute", "validate"
    rows,         \* Importer.execute: data, the loaded batch (row numbers)
    idx,          \* Importer.execute: number of rows already taken
    json_files,   \* Validator.execute: the sorted files not yet validated
    steps,        \* history: what each iteration of the running loop did
    disk0,        \* history: the disk when the current run started
    metadata0,    \* history: the ledger when the current run started
    exit,         \* return value of main(): -1 while none
    summary,      \* the summary printed by the current run
    returned,     \* the value Validator.execute returned in the current run
    last,         \* history: the most recent call of validate or of
                  \* raise_on_error
    ops,          \* number of operations started
    app           \* the application of one of the importer's functions to
                  \* given arguments, outside of any run

vars == <<metadata, source_data, disk, now, pc, ctx, rows, idx, json_files,
          steps, disk0, metadata0, exit, summary, returned, last, ops, app>>

EmptyDict == [k \in {} |-> << >>]
NoSummary == [emitted |-> FALSE]
NotReturned == [returned |-> FALSE]
NoCall == [call |-> "none"]
NoApp == [fn |-> "none"]

\* dict[key] = value
DictSet(d, key, value) ==
    [k \in DOMAIN d \cup {key} |-> IF k = key THEN value ELSE d[k]]

\* Validator.__str__: the four counters
validator_str(md) ==
    [emitted |-> TRUE, total |-> md.total, success |-> md.success,
     failed |-> md.failed, warning |-> md.warning,
     errors |-> << >>, warnings |-> << >>]

\* Validator.print: the four counters, then every error and every warning
validator_print(md) ==
    [emitted |-> TRUE, total |-> md.total, success |-> md.success,
     failed |-> md.failed, warning |-> md.warning,
     errors |-> md.errors, warnings |-> md.warnings]

\* Variant of raise_on_error that also raises on warnings
raise_on_error_on_warnings(md) == md.failed > 0 \/ md.warning > 0

\* Validator.raise_on_error: TRUE when it raises RuntimeError
raise_on_error(md) == md.failed > 0

Init ==
    /\ metadata = NewMetadata
    /\ source_data = EmptyDict
    /\ disk \in InitDisks
    /\ now = 1
    /\ pc = "idle"
    /\ ctx = "none"
    /\ rows = << >>
    /\ idx = 0
    /\ json_files = << >>
    /\ steps = << >>
    /\ disk0 = disk
    /\ metadata0 = metadata
    /\ exit = -1
    /\ summary = NoSummary
    /\ returned = NotReturned
    /\ last = NoCall
    /\ ops = 0
    /\ app = NoApp

(***************************************************************************)
(* importer.py: Importer.execute, Importer.run, main                       *)
(***************************************************************************)
\* History record of one call of validate: its arguments, the ledger before
\* and after, and what it returned or raised
CallRecord(filename, data, check_file_exists, dsk, md, v) ==
    [call |-> "validate", filename |-> filename, data |-> data,
     check_file_exists |-> check_file_exists,
     dest_exists |-> /\ "metadata" \in DOMAIN data
                     /\ "filepath" \in DOMAIN data.metadata
                     /\ isfile(dsk, data.metadata.filepath),
     ending |-> v.ending, before |-> md, after |-> v.md, ret |-> v.ret]

\* Variant of import_row that saves the transformed document without
\* looking at the errors validate returned
import_row_unchecked(row, t, md, dsk) ==
    LET tr == Transformed[row][t] IN
    IF tr.raised
    THEN [raised |-> TRUE, outcome |-> "transform_error", md |-> md,
          disk |-> dsk, path |-> << >>, written |-> Absent, call |-> NoCall]
    ELSE
    LET entity_data == tr.value
        v == validate(md, << >>, entity_data, TRUE, dsk)
        relative_filepath == entity_data.metadata.filepath
    IN  [raised |-> v.ret.value.kind = "errors",
         outcome |-> IF v.ret.value.kind = "errors" THEN "validation_error"
                     ELSE "written",
         md |-> v.md,
         disk |-> [dsk EXCEPT ![relative_filepath] = json_dump(entity_data)],
         path |-> relative_filepath, written |-> json_dump(entity_data),
         call |-> CallRecord(<< >>, entity_data, TRUE, dsk, md, v)]

\* Variant of import_row that goes on to the next row after a failure
import_row_best_effort(row, t, md, dsk) ==
    LET tr == Transformed[row][t] IN
    IF tr.raised
    THEN [raised |-> FALSE, outcome |-> "transform_error", md |-> md,
          disk |-> dsk, path |-> << >>, written |-> Absent, call |-> NoCall]
    ELSE
    LET entity_data == tr.value
        v == validate(md, << >>, entity_data, TRUE, dsk)
        call == CallRecord(<< >>, entity_data, TRUE, dsk, md, v)
    IN
    IF v.ret.value.kind = "errors"
    THEN [raised |-> FALSE, outcome |-> "validation_error", md |-> v.md,
          disk |-> dsk, path |-> entity_data.metadata.filepath,
          written |-> Absent, call |-> call]
    ELSE [raised |-> FALSE, outcome |-> "written", md |-> v.md,
          disk |-> [dsk EXCEPT ![entity_data.metadata.filepath] =
                                   json_dump(entity_data)],
          path |-> entity_data.metadata.filepath,
          written |-> json_dump(entity_data), call |-> call]

\* Variant of import_row that validates without the duplicate check
import_row_without_duplicate_check(row, t, md, dsk) ==
    LET validated(entity_data, v) ==
            LET call == CallRecord(<< >>, entity_data, FALSE, dsk, md, v) IN
            IF v.ret.raised
            THEN [raised |-> TRUE, outcome |-> "validate_raised", md |-> v.md,
                  disk |-> dsk, path |-> << >>, written |-> Absent,
                  call |-> call]
            ELSE IF v.ret.value.kind = "errors" /\ v.ret.value.errors # << >>
            THEN [raised |-> TRUE, outcome |-> "validation_error", md |-> v.md,
                  disk |-> dsk, path |-> entity_data.metadata.filepath,
                  written |-> Absent, call |-> call]
            ELSE
            LET validated_data == v.ret.value.data
                relative_filepath == validated_data.metadata.filepath
            IN  [raised |-> FALSE, outcome |-> "written", md |-> v.md,
                 disk |-> [dsk EXCEPT ![relative_filepath] =
                                          json_dump(validated_data)],
                 path |-> relative_filepath,
                 written |-> json_dump(validated_data), call |-> call]
        transformed(tr) ==
            IF tr.raised
            THEN [raised |-> TRUE, outcome |-> "transform_error", md |-> md,
                  disk |-> dsk, path |-> << >>, written |-> Absent,
                  call |-> NoCall]
            ELSE validated(tr.value, validate(md, << >>, tr.value, FALSE, dsk))
    IN  transformed(Transformed[row][t])

\* One iteration of the loop of Importer.execute, on row number row at
\* instant number t
import_row(row, t, md, dsk) ==
    LET validated(entity_data, v) ==
            LET call == CallRecord(<< >>, entity_data, TRUE, dsk, md, v) IN
            IF v.ret.raised
            THEN [raised |-> TRUE, outcome |-> "validate_raised", md |-> v.md,
                  disk |-> dsk, path |-> << >>, written |-> Absent,
                  call |-> call]
            ELSE IF v.ret.value.kind = "errors" /\ v.ret.value.errors # << >>
            THEN [raised |-> TRUE, outcome |-> "validation_error", md |-> v.md,
                  disk |-> dsk, path |-> entity_data.metadata.filepath,
                  written |-> Absent, call |-> call]
            ELSE
            LET validated_data == v.ret.value.data
                relative_filepath == validated_data.metadata.filepath
            IN  [raised |-> FALSE, outcome |-> "written", md |-> v.md,
                 disk |-> [dsk EXCEPT ![relative_filepath] =
                                          json_dump(validated_data)],
                 path |-> relative_filepath,
                 written |-> json_dump(validated_data), call |-> call]
        transformed(tr) ==
            IF tr.raised
            THEN [raised |-> TRUE, outcome |-> "transform_error", md |-> md,
                  disk |-> dsk, path |-> << >>, written |-> Absent,
                  call |-> NoCall]
            ELSE validated(tr.value, validate(md, << >>, tr.value, TRUE, dsk))
    IN  transformed(Transformed[row][t])

\* What the caller of a loop that raised does: main() returns 1
ExitOnRaise(c) == IF c \in {"importer_main", "validator_main"} THEN 1 ELSE -1
\* Where control is after the operation c: main() ends the process, a direct
\* call leaves the validator to its caller
AfterRun(c) == IF c \in {"importer_main", "validator_main"} THEN "exited" ELSE "idle"

StartRun ==
    /\ pc = "idle"
    /\ ops < MaxOps
    /\ ops' = ops + 1
    /\ steps' = << >>
    /\ disk0' = disk
    /\ exit' = -1
    /\ summary' = NoSummary
    /\ returned' = NotReturned
    /\ app' = app

\* main() of importer.py up to the loop: ProjectImporter(csv, output) with a
\* new ProjectValidator, run(), execute(), load_csv().  main() is a process
\* of its own: it is the first and only operation of its behaviour.
ImporterMain ==
    /\ StartRun
    /\ ops = 0
    /\ \E batch \in Batches : rows' = batch
    /\ metadata' = NewMetadata
    /\ source_data' = EmptyDict
    /\ metadata0' = NewMetadata
    /\ idx' = 0
    /\ pc' = "import"
    /\ ctx' = "importer_main"
    /\ last' = NoCall
    /\ UNCHANGED <<disk, now, json_files>>

\* One iteration of "for row in data"
ImportRow ==
    /\ pc = "import"
    /\ idx < Len(rows)
    /\ \E t \in now..Len(Instants) :
        \E r \in {import_row(rows[idx + 1], t, metadata, disk)} :
            /\ now' = t
            /\ metadata' = r.md
            /\ disk' = r.disk
            /\ steps' = Append(steps,
                   [row |-> rows[idx + 1], t |-> t, outcome |-> r.outcome,
                    changed |-> {p \in DOMAIN disk : r.disk[p] # disk[p]},
                    validated |->
                        /\ r.call.call = "validate"
                        /\ ~r.call.ret.raised
                        /\ r.call.ret.value.kind = "data",
                    returned_errors |->
                        /\ r.call.call = "validate"
                        /\ ~r.call.ret.raised
                        /\ r.call.ret.value.kind = "errors"])
            /\ last' = r.call
            /\ idx' = idx + 1
            /\ IF r.raised
               THEN /\ pc' = AfterRun(ctx)
                    /\ exit' = ExitOnRaise(ctx)
               ELSE UNCHANGED <<pc, exit>>
    /\ UNCHANGED <<source_data, ctx, rows, json_files, disk0, metadata0,
                   summary, returned, ops, app>>

\* The loop is over: Importer.run prints str(validator), main() returns 0
ImportFinish ==
    /\ pc = "import"
    /\ idx = Len(rows)
    /\ summary' = validator_str(metadata)
    /\ exit' = IF ctx = "importer_main" THEN 0 ELSE -1
    /\ pc' = AfterRun(ctx)
    /\ UNCHANGED <<metadata, source_data, disk, now, ctx, rows, idx, json_files,
                   steps, disk0, metadata0, returned, last, ops, app>>

(***************************************************************************)
(* validator.py: Validator.execute, Validator.run, main, direct calls      *)
(***************************************************************************)
\* One iteration of the second loop of Validator.execute
execute_step(md, sd, file, dsk) ==
    LET entity_id == file[1]
        filepath == file[2]
        validated(v) ==
            LET call == CallRecord(filepath, << >>, FALSE, dsk, md, v) IN
            IF v.ret.raised
            THEN [raised |-> TRUE, md |-> v.md, source_data |-> sd, call |-> call]
            ELSE IF v.ret.value.kind = "data" /\ DOMAIN v.ret.value.data # {}
            THEN [raised |-> FALSE, md |-> v.md,
                  source_data |-> DictSet(sd, entity_id, v.ret.value.data),
                  call |-> call]
            ELSE [raised |-> FALSE, md |-> v.md, source_data |-> sd,
                  call |-> call]
    IN  validated(validate(md, filepath, << >>, FALSE, dsk))

\* Validator.execute(dirpath) up to its second loop, on the ledger md
ExecuteBegin(md, caller) ==
    /\ StartRun
    /\ \E listing \in Listings(disk) :
        \E c \in {collect(listing, md, << >>, disk)} :
            /\ metadata' = c.md
            /\ json_files' = SortedByKey(c.json_files)
    /\ metadata0' = md
    /\ pc' = "validate"
    /\ ctx' = caller
    /\ last' = NoCall
    /\ UNCHANGED <<disk, now, rows, idx>>

\* main() of validator.py up to the second loop of execute: a new
\* ProjectValidator, run(), execute(source_filepath); a process of its own
ValidatorMain ==
    /\ ops = 0
    /\ ExecuteBegin(NewMetadata, "validator_main")
    /\ source_data' = EmptyDict

\* Validator.run() on the existing validator
ValidatorRun ==
    /\ ExecuteBegin(metadata, "validator_run")
    /\ UNCHANGED source_data

\* Validator.execute(dirpath) on the existing validator
ValidatorExecute ==
    /\ ExecuteBegin(metadata, "validator_execute")
    /\ UNCHANGED source_data

\* One iteration of "for entity_id, filepath in sorted(json_files, ...)"
ExecuteValidate ==
    /\ pc = "validate"
    /\ json_files # << >>
    /\ \E r \in {execute_step(metadata, source_data, Head(json_files), disk)} :
           /\ metadata' = r.md
           /\ source_data' = r.source_data
           /\ last' = r.call
           /\ steps' = Append(steps, [id |-> Head(json_files)[1],
                                       path |-> Head(json_files)[2],
                                       ending |-> r.call.ending])
           /\ json_files' = Tail(json_files)
           /\ IF r.raised
              THEN /\ pc' = AfterRun(ctx)
                   /\ exit' = ExitOnRaise(ctx)
              ELSE UNCHANGED <<pc, exit>>
    /\ UNCHANGED <<disk, now, ctx, rows, idx, disk0, metadata0, summary,
                   returned, ops, app>>

\* The loop is over: execute returns self.source_data; run() prints the
\* summary; main() calls raise_on_error and returns 0, or 1 when it raised
ExecuteReturn ==
    /\ pc = "validate"
    /\ json_files = << >>
    /\ returned' = [returned |-> TRUE, value |-> source_data]
    /\ summary' = IF ctx \in {"validator_run", "validator_main"}
                  THEN validator_print(metadata)
                  ELSE NoSummary
    /\ exit' = IF ctx = "validator_main"
               THEN (IF raise_on_error(metadata) THEN 1 ELSE 0)
               ELSE -1
    /\ pc' = AfterRun(ctx)
    /\ UNCHANGED <<metadata, source_data, disk, now, ctx, rows, idx, json_files,
                   steps, disk0, metadata0, last, ops, app>>

\* The data and file arguments of direct calls of validate
DataArgs == {StoredDocs[r].value : r \in {1, 3}} \cup {EmptyDict}
FileArgs(dsk) == DOMAIN dsk \cup {os_path_join(OutputDir, <<"z">> \o DotJson)}

\* validator.validate(filename=..., data=..., check_file_exists=...)
CallValidate ==
    /\ StartRun
    /\ metadata0' = metadata
    /\ ctx' = "validate"
    /\ \E filename \in FileArgs(disk) \cup {<< >>}, data \in DataArgs,
          check \in BOOLEAN :
        /\ (filename # << >>) => (DOMAIN data = {} /\ check)
        /\ \E v \in {validate(metadata, filename, data, check, disk)} :
               /\ metadata' = v.md
               /\ last' = CallRecord(filename, data, check, disk, metadata, v)
    /\ UNCHANGED <<source_data, disk, now, pc, rows, idx, json_files>>

\* Variant of raise_on_error_call whose message carries the total counter
raise_on_error_call_reporting_total(md) ==
    [md |-> md,
     ret |-> IF raise_on_error(md) THEN Raise("RuntimeError", md.total)
             ELSE Return(None)]

\* Validator.raise_on_error as its caller sees it: the ledger after the call
\* and the RuntimeError raised, whose message carries the failed counter, or
\* the return of None
raise_on_error_call(md) ==
    [md |-> md,
     ret |-> IF raise_on_error(md) THEN Raise("RuntimeError", md.failed)
             ELSE Return(None)]

\* validator.raise_on_error() on the existing validator
RaiseOnError ==
    /\ StartRun
    /\ metadata0' = metadata
    /\ ctx' = "raise_on_error"
    /\ \E v \in {raise_on_error_call(metadata)} :
           /\ metadata' = v.md
           /\ last' = [call |-> "raise_on_error", before |-> metadata,
                       after |-> v.md, ret |-> v.ret]
    /\ UNCHANGED <<source_data, disk, now, pc, rows, idx, json_files>>

\* validator.print() on the existing validator
ValidatorPrint ==
    /\ pc = "idle"
    /\ ops < MaxOps
    /\ ops' = ops + 1
    /\ ctx' = "print"
    /\ summary' = validator_print(metadata)
    /\ steps' = << >>
    /\ disk0' = disk
    /\ metadata0' = metadata
    /\ exit' = -1
    /\ returned' = NotReturned
    /\ last' = NoCall
    /\ UNCHANGED <<metadata, source_data, disk, now, pc, rows, idx, json_files,
                   app>>

\* The keys given to direct calls of save_state: the two supported ones and
\* an unsupported one
SaveStateKeys == {"errors", "warnings", "other"}

\* Validator.save_state as its caller sees it: the ledger after the call and
\* the ValueError of an unsupported key, or the return of None
save_state_call(md, name, message, key) ==
    [md |-> save_state(md, name, message, key),
     ret |-> IF key \notin {"errors", "warnings"}
             THEN Raise("ValueError", <<key>>)
             ELSE Return(None)]

\* validator.save_state(name, message, key) on the existing validator
SaveState ==
    /\ StartRun
    /\ metadata0' = metadata
    /\ ctx' = "save_state"
    /\ \E key \in SaveStateKeys :
        \E v \in {save_state_call(metadata, <<"x">>, Message("m", << >>), key)} :
            /\ metadata' = v.md
            /\ last' = [call |-> "save_state", key |-> key,
                        before |-> metadata, after |-> v.md, ret |-> v.ret]
    /\ UNCHANGED <<source_data, disk, now, pc, rows, idx, json_files>>

Next ==
    \/ ImporterMain
    \/ ImportRow
    \/ ImportFinish
    \/ ValidatorMain
    \/ ValidatorRun
    \/ ValidatorExecute
    \/ ExecuteValidate
    \/ ExecuteReturn
    \/ CallValidate
    \/ RaiseOnError
    \/ ValidatorPrint
    \/ SaveState

Spec == Init /\ [][Next]_vars

(***************************************************************************)
(* The importer's functions applied on their own: an application is chosen *)
(* at the start, with its arguments, and one step applies the function.    *)
(***************************************************************************)
\* The characters of the names given to normalize_name
NameChars ==
    {"a", "B", "1", "-", "_", " ", "#", ".", "E_ACUTE", "COMB_ACUTE", "CJK",
     "TAB", "NBSP"}
Names == SeqsUpTo(NameChars, MaxLen)

\* A record with every column of the header
CommunityColumns ==
    ("Community Name" :> <<"c", "m">>) @@ ("Community Website" :> <<"w">>)
FullRow(discriminant, optional) ==
    (OwnerColumn :> discriminant) @@ ("Documentation url" :> optional)
    @@ ("Company Description" :> optional)
    @@ ("Community Description" :> optional)
    @@ RowCommon(<<"A">>, <<"u">>, <<"D", "e", "v">>)
    @@ OwnerIndividual(<<"x">>) @@ OwnerOrganization @@ CommunityColumns
\* The record of a file whose header lacks column c
Without(row, c) == [k \in DOMAIN row \ {c} |-> row[k]]

\* Values of the owner column: the three recognized words, a recognized word
\* with a space before it, in lower case, another word, the value of a short
\* line, the empty string
Discriminants ==
    {Word_Organization, Word_Individual, Word_Community,
     <<" ">> \o Word_Individual, LowerStr(Word_Individual), <<"x">>, None, << >>}
\* Values of the optional columns: empty, the value of a short line, white
\* space only, a character sanitize_description drops, ordinary text
OptionalValues == {<< >>, None, <<" ">>, <<"#">>, <<"h">>}
AllColumns == DOMAIN FullRow(<< >>, << >>)
TransformRows ==
    {FullRow(d, o) : d \in Discriminants, o \in OptionalValues}
    \cup {Without(FullRow(d, o), c) :
             d \in Discriminants, o \in OptionalValues, c \in AllColumns}

\* Readings of the clock given to get_timestamp
ClockReadings ==
    [hour : {0, 9, 23}, minute : {0, 59}, second : {0, 1, 59},
     microsecond : {0, 1, 250000, 999999}]

Application(fn, args) ==
    [fn |-> fn, args |-> args, applied |-> FALSE, result |-> << >>]
Applications ==
    {Application("normalize_name", <<n>>) : n \in Names}
    \cup {Application("transform_row", <<row, Instants[t]>>) :
             row \in TransformRows, t \in DOMAIN Instants}
    \cup {Application("get_timestamp", <<t>>) : t \in ClockReadings}

FunctionsInit ==
    /\ app \in Applications
    /\ metadata = NewMetadata
    /\ source_data = EmptyDict
    /\ disk = EmptyDict
    /\ now = 1
    /\ pc = "idle"
    /\ ctx = "none"
    /\ rows = << >>
    /\ idx = 0
    /\ json_files = << >>
    /\ steps = << >>
    /\ disk0 = disk
    /\ metadata0 = metadata
    /\ exit = -1
    /\ summary = NoSummary
    /\ returned = NotReturned
    /\ last = NoCall
    /\ ops = 0

\* The state of the validator, of the disk and of the runs
run == <<metadata, source_data, disk, now, pc, ctx, rows, idx, json_files,
         steps, disk0, metadata0, exit, summary, returned, last, ops>>

\* normalize_name(name)
ApplyNormalizeName ==
    /\ app.fn = "normalize_name"
    /\ ~app.applied
    /\ app' = [app EXCEPT !.applied = TRUE,
                          !.result = normalize_name(app.args[1])]
    /\ UNCHANGED run

\* ProjectImporter.transform_row(row), the clock reading args[2]
ApplyTransformRow ==
    /\ app.fn = "transform_row"
    /\ ~app.applied
    /\ app' = [app EXCEPT !.applied = TRUE,
                          !.result = transform_row(app.args[1], app.args[2])]
    /\ UNCHANGED run

\* get_timestamp(), the clock reading args[1]
ApplyGetTimestamp ==
    /\ app.fn = "get_timestamp"
    /\ ~app.applied
    /\ app' = [app EXCEPT !.applied = TRUE,
                          !.result = get_timestamp(app.args[1])]
    /\ UNCHANGED run

FunctionsNext ==
    \/ ApplyNormalizeName
    \/ ApplyTransformRow
    \/ ApplyGetTimestamp

Functions == FunctionsInit /\ [][FunctionsNext]_vars

(***************************************************************************)
(* Vocabulary of the properties                                            *)
(***************************************************************************)
ImportRun == ctx = "importer_main"
DirectoryRun == ctx \in {"validator_main", "validator_run", "validator_execute"}
RunOver == pc \in {"idle", "exited"}

\* The document of a step of the import loop, or the raised error
StepTransform(st) == Transformed[st.row][st.t]
StepDest(st) == StepTransform(st).value.metadata.filepath
\* The step's record failed transformation or validation
StepFailed(st) == StepTransform(st).raised \/ st.returned_errors

\* A row fails transformation or its document fails the schema
RowFails(r) ==
    LET tr == Transformed[r][1]
    IN  tr.raised \/ ~SchemaAccepts(tr.value)
RowDest(r) == Transformed[r][1].value.metadata.filepath

\* Entries of the directory by what directory validation makes of them
EntryPath(n) == os_path_join(OutputDir, n)
JsonFileEntries ==
    {n \in Entries(disk) : disk[EntryPath(n)].kind = "file" /\ EndsWith(n, DotJson)}
WrongExtensionEntries ==
    {n \in Entries(disk) : disk[EntryPath(n)].kind = "file" /\ ~EndsWith(n, DotJson)}
NonFileEntries == {n \in Entries(disk) : disk[EntryPath(n)].kind # "file"}
Unparseable(n) == disk[EntryPath(n)].body.t = "garbage"
Conformant(n) ==
    /\ disk[EntryPath(n)].body.t = "object"
    /\ SchemaAccepts(disk[EntryPath(n)].body.obj)
\* the filename without its extension
StripExtension(n) == SubSeq(n, 1, Len(n) - Len(DotJson))

(***************************************************************************)
(* Properties                                                              *)
(***************************************************************************)

\* C1: in an import run a document for which validate returned errors is
\* never written: a step whose validation returned errors changes no file,
\* and a file differs from its state before the run only if some record
\* with that destination was returned by validate without errors.
C1_FailedDocumentNeverWritten ==
    ImportRun =>
        /\ \A k \in DOMAIN steps :
              steps[k].changed # {} =>
                  /\ steps[k].validated
                  /\ ~steps[k].returned_errors
                  /\ steps[k].changed = {StepDest(steps[k])}
        /\ \A p \in DOMAIN disk :
              disk[p] # disk0[p] =>
                  \E k \in DOMAIN steps :
                      /\ steps[k].validated
                      /\ StepDest(steps[k]) = p

\* C1 witness: an import run that wrote a first record and then got errors
\* from validate for a later one
C1_Witness ==
    /\ ImportRun
    /\ RunOver
    /\ \E k \in DOMAIN steps :
          k > 1 /\ steps[k].returned_errors /\ steps[1].changed # {}

\* C2: every invocation of validate, whichever way it ends, increases the
\* ledger's total counter by exactly 1.
C2_TotalCountsEveryCall ==
    (/\ last.call = "validate"
     /\ (last.filename # << >> \/ DOMAIN last.data # {}))
    => last.after.total = last.before.total + 1

\* C3: when an import run processes a record whose destination file was
\* already there, the file holds after the run what it held before the run.
C3_ExistingFileKept ==
    (ImportRun /\ RunOver) =>
        \A k \in DOMAIN steps :
            (/\ ~StepTransform(steps[k]).raised
             /\ disk0[StepDest(steps[k])].kind = "file")
            => disk[StepDest(steps[k])] = disk0[StepDest(steps[k])]

\* The batch is one whose records all transform, conform to the schema and
\* have their destination file in the output directory before the run
ReimportOfStoredBatch ==
    \A i \in DOMAIN rows :
        /\ ~RowFails(rows[i])
        /\ disk0[RowDest(rows[i])].kind = "file"

\* C4: validating, with the duplicate check, a schema-conformant document
\* whose destination file exists returns (document, none), appends exactly
\* one warning record and leaves the failed counter and the error list as
\* they were; so an import of a batch whose destinations are all on disk
\* already ends without abort, with failed = 0 and one warning per record.
C4_DuplicateIsWarning ==
    /\ (/\ last.call = "validate"
        /\ last.filename = << >>
        /\ last.check_file_exists
        /\ DOMAIN last.data # {}
        /\ SchemaAccepts(last.data)
        /\ last.dest_exists)
       => /\ ~last.ret.raised
          /\ last.ret.value = [kind |-> "data", data |-> last.data]
          /\ Len(last.after.warnings) = Len(last.before.warnings) + 1
          /\ SubSeq(last.after.warnings, 1, Len(last.before.warnings))
                 = last.before.warnings
          /\ last.after.warning = last.before.warning + 1
          /\ last.after.failed = last.before.failed
          /\ last.after.errors = last.before.errors
    /\ (ImportRun /\ RunOver /\ ReimportOfStoredBatch)
       => /\ exit = 0
          /\ idx = Len(rows)
          /\ metadata.failed = 0
          /\ metadata.errors = << >>
          /\ metadata.warning = Len(rows)
          /\ Len(metadata.warnings) = Len(rows)

\* C4 witness: a finished import of two different records whose destination
\* files were both on disk before the run
C4_Witness ==
    /\ ImportRun
    /\ RunOver
    /\ ReimportOfStoredBatch
    /\ Len(rows) >= 2
    /\ RowDest(rows[1]) # RowDest(rows[2])
    /\ last.call = "validate"
    /\ last.dest_exists

\* The content the import loop has last saved at the destination of step k
LastSaved(k) ==
    LET later == {j \in k..Len(steps) :
                    /\ ~StepFailed(steps[j])
                    /\ StepDest(steps[j]) = StepDest(steps[k])}
        j == CHOOSE m \in later : \A n \in later : n <= m
    IN  json_dump(StepTransform(steps[j]).value)

\* C5: import is fail-fast without rollback: the record that fails
\* transformation or validation is the last one taken from the batch, the
\* run is over with it, and every file saved for the records before it is
\* on disk with the content saved.
C5_FailFastNoRollback ==
    ImportRun =>
        /\ idx = Len(steps)
        /\ \A k \in DOMAIN steps :
              IF StepFailed(steps[k])
              THEN /\ k = Len(steps)
                   /\ pc = "exited"
                   /\ exit = 1
                   /\ steps[k].changed = {}
              ELSE disk[StepDest(steps[k])] = LastSaved(k)

\* C5 witness: the second of three records failed after the first was
\* saved; the third was never taken
C5_Witness ==
    /\ ImportRun
    /\ RunOver
    /\ Len(rows) = 3
    /\ Len(steps) = 2
    /\ ~StepFailed(steps[1])
    /\ StepFailed(steps[2])
    /\ disk0[StepDest(steps[1])].kind = "absent"
    /\ disk[StepDest(steps[1])].kind = "file"

\* A .json file directory validation cannot accept
FileFails(n) == Unparseable(n) \/ ~Conformant(n)

\* C6: directory validation is fail-soft: it visits every regular .json
\* file, also after one that fails the schema or is not JSON, records one
\* error for each such file and returns normally.
C6_DirectoryValidationFailSoft ==
    (/\ DirectoryRun
     /\ RunOver
     /\ \A n \in JsonFileEntries : Unparseable(n) \/ disk[EntryPath(n)].body.t = "object")
    => /\ returned.returned
       /\ \A n \in JsonFileEntries :
             \E k \in DOMAIN steps : steps[k].path = EntryPath(n)
       /\ Len(metadata.errors) - Len(metadata0.errors)
             = Cardinality({n \in JsonFileEntries : FileFails(n)})

\* C7: directory validation on a fresh validator over w wrong-extension
\* entries, p .json files of invalid JSON and s conformant .json files ends
\* with warning = w, failed = p, success = s and total = w + p + s.
C7_DirectoryCounts ==
    (/\ ctx = "validator_main"
     /\ RunOver
     /\ NonFileEntries = {}
     /\ \A n \in JsonFileEntries : Unparseable(n) \/ Conformant(n))
    => LET w == Cardinality(WrongExtensionEntries)
           p == Cardinality({n \in JsonFileEntries : Unparseable(n)})
           s == Cardinality({n \in JsonFileEntries : Conformant(n)})
       IN  /\ metadata.warning = w
           /\ metadata.failed = p
           /\ metadata.success = s
           /\ metadata.total = w + p + s

C9_SummaryAlwaysEmitted ==
    (RunOver /\ ctx \in {"importer_main", "validator_main", "validator_run"})
    => /\ summary.emitted
       /\ summary.total = metadata.total
       /\ summary.success = metadata.success
       /\ summary.failed = metadata.failed
       /\ summary.warning = metadata.warning
       /\ summary.errors = metadata.errors
       /\ summary.warnings = metadata.warnings

\* C10: the mapping directory validation returns has as keys exactly the
\* filenames, without the extension, of the files of the directory that
\* validated successfully, each mapped to its document.
C10_ReturnedMapping ==
    returned.returned =>
        LET ok == {n \in JsonFileEntries : Conformant(n)}
        IN  /\ DOMAIN returned.value = {StripExtension(n) : n \in ok}
            /\ \A n \in ok :
                  returned.value[StripExtension(n)] = disk[EntryPath(n)].body.obj

\* The filename of a step of directory validation
StepName(st) == Drop(st.path, Len(OutputDir) + 1)

\* C11: directory validation validates the accepted .json files in the
\* lexicographic order of their filenames, extension included, whatever the
\* order of the directory listing.
C11_LexicographicFilenameOrder ==
    DirectoryRun =>
        \A i, j \in DOMAIN steps :
            i < j => StrLess(StepName(steps[i]), StepName(steps[j]))

\* C12: raise_on_error raises an error whose message carries the failed
\* counter exactly when failed > 0 and returns normally when failed = 0; either
\* way the ledger is left as it was and the process is not terminated.
C12_RaiseOnErrorIffFailed ==
    (last.call = "raise_on_error") =>
        /\ last.ret.raised <=> (last.before.failed > 0)
        /\ last.ret.raised =>
              /\ last.ret.exc = "RuntimeError"
              /\ last.ret.arg = last.before.failed
        /\ ~last.ret.raised => last.ret = Return(None)
        /\ last.after = last.before
        /\ metadata = last.before
        /\ pc = "idle"
        /\ exit = -1

\* C12 witness: raise_on_error raised on a ledger that holds a failure next
\* to items that did not fail
C12_Witness ==
    /\ last.call = "raise_on_error"
    /\ last.ret.raised
    /\ last.before.total > last.before.failed

(***************************************************************************)
(* The properties of the importer's functions                              *)
(***************************************************************************)
Applied(fn) == app.fn = fn /\ app.applied

\* The owner variant a record selects: the value of its owner column
SelectedVariant(row) ==
    IF OwnerColumn \in DOMAIN row THEN sanitize_text(Str(row[OwnerColumn]))
    ELSE << >>
\* The input fields a record is required to hold
RequiredFields(row) ==
    {"Name", "Category", "Country", "Description", "Platform",
     "Repository url", "License", "Language", OwnerColumn}
    \cup (IF SelectedVariant(row) = Word_Organization
          THEN {"Company Name", "Company Website", "Your company is a Startup?"}
          ELSE IF SelectedVariant(row) = Word_Individual
          THEN {"Owner Full Name or Username"}
          ELSE IF SelectedVariant(row) = Word_Community
          THEN {"Community Name", "Community Website"}
          ELSE {})
MissingFields(row) == RequiredFields(row) \ DOMAIN row

\* C13: transforming a record that lacks a required input field (Name,
\* Category, Country, Description, Platform, Repository url, License,
\* Language, the owner column, or a required field of the selected owner
\* variant) fails with an error naming a missing field; no document is
\* produced and no default is substituted.
C13_MissingFieldFails ==
    (Applied("transform_row") /\ MissingFields(app.args[1]) # {}) =>
        /\ app.result.raised
        /\ app.result.exc = "KeyError"
        /\ app.result.arg \in MissingFields(app.args[1])

\* The three recognized values of the owner column and their variants
RecognizedOwners == {Word_Organization, Word_Individual, Word_Community}
VariantType(word) ==
    IF word = Word_Organization THEN "organization"
    ELSE IF word = Word_Individual THEN "individual" ELSE "community"
VariantFields(word) ==
    IF word = Word_Organization
    THEN {"type", "name", "url_website", "is_a_startup"}
    ELSE IF word = Word_Individual THEN {"type", "name"}
    ELSE {"type", "name", "url_website"}
VariantOptionalFields(word) ==
    IF word = Word_Individual THEN {} ELSE {"description"}
\* The applied transform resolved the owner by discriminant value d
OwnerResolvedBy(d) ==
    IF d \in RecognizedOwners
    THEN /\ ~app.result.raised
         /\ "owner" \in DOMAIN app.result.value
         /\ app.result.value.owner.type = VariantType(d)
         /\ VariantFields(d) \subseteq DOMAIN app.result.value.owner
         /\ DOMAIN app.result.value.owner
                \subseteq VariantFields(d) \cup VariantOptionalFields(d)
    ELSE /\ app.result.raised
         /\ app.result.exc = "ValueError"
         /\ app.result.arg = d
\* The transform was applied to a record that holds every column
TransformedFullRecord ==
    /\ Applied("transform_row")
    /\ AllColumns \subseteq DOMAIN app.args[1]

\* C14 (as stated): transform yields a document with exactly one owner, of
\* type organization, individual or community with the fields of that
\* variant, when the value of the owner column is Organization, Individual
\* or Community, and for any other value of the column fails with an error
\* naming that value.
C14_OwnerByColumnValue ==
    TransformedFullRecord => OwnerResolvedBy(Str(app.args[1][OwnerColumn]))

\* C14 (amended): transform yields a document with exactly one owner, of
\* type organization, individual or community with the fields of that
\* variant, when the value of the owner column is Organization, Individual
\* or Community after text sanitization, and for any other sanitized value
\* fails with an error naming the sanitized value.
C14_OwnerBySanitizedValue ==
    TransformedFullRecord =>
        OwnerResolvedBy(sanitize_text(Str(app.args[1][OwnerColumn])))

C14_Witness ==
    /\ TransformedFullRecord
    /\ app.args[1][OwnerColumn] = <<" ">> \o Word_Individual
    /\ ~app.result.raised
    /\ app.result.value.owner.type = "individual"

\* C15: in a transformed document each optional field (source
\* .url_documentation, the description of an organization or community
\* owner) is either absent or a non-empty string, whatever the source value:
\* absent, empty, white space only, or only characters the sanitizer drops.
C15_OptionalAbsentOrNonEmpty ==
    (Applied("transform_row") /\ ~app.result.raised) =>
        /\ "url_documentation" \in DOMAIN app.result.value.source
               => app.result.value.source.url_documentation \notin {<< >>, None}
        /\ "description" \in DOMAIN app.result.value.owner
               => app.result.value.owner.description \notin {<< >>, None}

\* C16: for every instant, get_timestamp returns YYYY-MM-DDTHH:MM:SS followed
\* by "Z", including when the instant's microsecond component is 0.
C16_TimestampSecondPrecisionZ ==
    Applied("get_timestamp") =>
        app.result = ModelDate \o <<"T">> \o Pad2(app.args[1].hour) \o <<":">>
                     \o Pad2(app.args[1].minute) \o <<":">>
                     \o Pad2(app.args[1].second) \o <<"Z">>

\* The filename and the path of the document transform_row yields from row
\* at clock reading t
Destination(row, t) ==
    LET dest(tr) == IF tr.raised THEN << >>
                    ELSE <<tr.value.metadata.filename, tr.value.metadata.filepath>>
    IN  dest(transform_row(row, t))

\* C17: the filename depends on the name and the unique identifier alone:
\* transforming an unchanged record again, at any later or earlier clock
\* reading, reproduces the same metadata.filename and metadata.filepath,
\* and the filename is generate_filename of the sanitized name and
\* repository url.
C17_SameRecordSameFilename ==
    (Applied("transform_row") /\ ~app.result.raised) =>
        /\ \A t \in DOMAIN Instants :
               Destination(app.args[1], Instants[t])
                   = <<app.result.value.metadata.filename,
                       app.result.value.metadata.filepath>>
        /\ app.result.value.metadata.filename
               = generate_filename(app.result.value.name,
                                   app.result.value.source.url_repository)

C17_Witness ==
    /\ Applied("transform_row")
    /\ ~app.result.raised
    /\ app.args[2] = Instants[2]
    /\ Destination(app.args[1], Instants[1])
           = <<app.result.value.metadata.filename,
               app.result.value.metadata.filepath>>
    /\ app.result.value.metadata.created_at # get_timestamp(Instants[1])

\* The ASCII letters and digits of a name that survive sanitization and the
\* stripping of diacritics
Survivors(name) ==
    Filter(Remove(NFD(sanitize_name(name)), CombiningMarks),
           LowerAscii \cup UpperAscii \cup Digits)
\* s is a slug: non-empty, of lowercase ASCII letters, digits and hyphens,
\* with no hyphen first or last and no two hyphens in a row
IsSlug(s) ==
    /\ s # << >>
    /\ \A i \in DOMAIN s : s[i] \in LowerAscii \cup Digits \cup {"-"}
    /\ s[1] # "-"
    /\ s[Len(s)] # "-"
    /\ \A i \in 1..(Len(s) - 1) : ~(s[i] = "-" /\ s[i + 1] = "-")

\* C18: for any name normalize_name returns a non-empty slug of lowercase
\* ASCII letters, digits and hyphens, with no leading or trailing hyphen and
\* no consecutive hyphens; it is "entity" when no ASCII letter or digit
\* survives sanitization and diacritic stripping.
C18_NormalizeNameIsSlug ==
    Applied("normalize_name") =>
        /\ IsSlug(app.result)
        /\ Survivors(app.args[1]) = << >>
               => app.result = <<"e", "n", "t", "i", "t", "y">>

C18_Witness ==
    /\ Applied("normalize_name")
    /\ app.args[1] = <<"#", "#", "#">>
    /\ app.result = <<"e", "n", "t", "i", "t", "y">>

\* The increments of the counters success, failed and warning by the last
\* call of validate
CounterSteps ==
    <<last.after.success - last.before.success,
      last.after.failed - last.before.failed,
      last.after.warning - last.before.warning>>
Outcomes(md) == md.success + md.failed + md.warning

\* C19: each call of validate on an item (a file name or a document is
\* given) increments exactly one of the counters success, failed, warning by
\* 1 and leaves the other two unchanged, success only when the document
\* conforms and the duplicate check finds no existing destination; a call on
\* an in-memory document keeps success + failed + warning = total.
C19_ExactlyOneOutcome ==
    (/\ last.call = "validate"
     /\ (last.filename # << >> \/ DOMAIN last.data # {}))
    => /\ CounterSteps \in {<<1, 0, 0>>, <<0, 1, 0>>, <<0, 0, 1>>}
       /\ CounterSteps = <<1, 0, 0>>
              => /\ last.ending = "success"
                 /\ ~(last.check_file_exists /\ last.dest_exists)
       /\ (last.filename = << >> /\ Outcomes(last.before) = last.before.total)
              => Outcomes(last.after) = last.after.total

\* s is a prefix of t
IsPrefix(s, t) == Len(s) <= Len(t) /\ SubSeq(t, 1, Len(s)) = s
\* Ledger b holds everything ledger a holds, in the same places, and counts
\* no less
Extends(a, b) ==
    /\ IsPrefix(a.errors, b.errors)
    /\ IsPrefix(a.warnings, b.warnings)
    /\ a.success <= b.success
    /\ a.failed <= b.failed
    /\ a.warning <= b.warning
    /\ a.total <= b.total

\* C20: the ledger is append-only: in every step of every operation on the
\* validator (validate, directory validation, import, summary,
\* raise_on_error) the error list and the warning list before the step are
\* prefixes of the lists after it and no counter decreases.
C20_LedgerAppendOnly == [][Extends(metadata, metadata')]_vars

\* C20 witness: a second operation added records to a ledger that already
\* held records of the first
C20_Witness ==
    /\ ops = 2
    /\ Len(metadata0.warnings) + Len(metadata0.errors) >= 1
    /\ Len(metadata.warnings) + Len(metadata.errors)
           > Len(metadata0.warnings) + Len(metadata0.errors)
    /\ Extends(metadata0, metadata)

\* The last step of the import loop took a record whose destination an
\* earlier step of the same run had computed, validated and written
LaterRecordOfSameDestination ==
    /\ ImportRun
    /\ steps # << >>
    /\ ~StepTransform(steps[Len(steps)]).raised
    /\ \E j \in 1..(Len(steps) - 1) :
          /\ ~StepTransform(steps[j]).raised
          /\ steps[j].outcome = "written"
          /\ StepDest(steps[j]) = StepDest(steps[Len(steps)])
\* The last call of validate found the destination and recorded a duplicate
\* warning, not a success
DuplicateWarningRecorded ==
    /\ last.call = "validate"
    /\ last.dest_exists
    /\ last.ending = "duplicate"
    /\ last.after.warning = last.before.warning + 1
    /\ Len(last.after.warnings) = Len(last.before.warnings) + 1
    /\ last.after.success = last.before.success
    /\ last.after.failed = last.before.failed

\* C21 (as stated): within one import run, when two records of the batch
\* compute the same destination path and the earlier one was validated and
\* written, the validation of the later one sees the written file and
\* records a duplicate warning, not a success.
C21_LaterRecordIsDuplicate ==
    LaterRecordOfSameDestination => DuplicateWarningRecorded

\* C21 (amended): within one import run, when two records of the batch
\* compute the same destination path, the earlier one was validated and
\* written and the later one conforms to the schema, the validation of the
\* later one sees the written file and records a duplicate warning, not a
\* success.
C21_LaterConformantRecordIsDuplicate ==
    (/\ LaterRecordOfSameDestination
     /\ SchemaAccepts(StepTransform(steps[Len(steps)]).value))
    => DuplicateWarningRecorded

\* C21 witness: the destination did not exist before the run; the first
\* record created it and the second record met it
C21_Witness ==
    /\ LaterRecordOfSameDestination
    /\ Len(steps) = 2
    /\ disk0[StepDest(steps[1])].kind = "absent"
    /\ DuplicateWarningRecorded

\* The counters of the failures and of the warnings of ledger md count its
\* records
CountsMatchRecords(md) ==
    /\ md.failed = Len(md.errors)
    /\ md.warning = Len(md.warnings)
\* No more successes and failures than calls counted
WithinTotal(md) == md.success + md.failed <= md.total

\* C22 (as stated): in every reachable state of the ledger, after any
\* sequence of save_state, validate and directory-validation operations,
\* also ones that end by raising, failed is the number of error records,
\* warning is the number of warning records, and success + failed <= total.
C22_LedgerCounts == CountsMatchRecords(metadata) /\ WithinTotal(metadata)

\* C22 (amended): in every reachable state of the ledger, after any sequence
\* of save_state, validate and directory-validation operations, also ones
\* that end by raising, failed is the number of error records and warning is
\* the number of warning records; every operation other than a direct call
\* of save_state keeps success + failed <= total, at each of its steps.
C22_LedgerCountsExceptDirectSave ==
    /\ CountsMatchRecords(metadata)
    /\ (ctx # "save_state" /\ WithinTotal(metadata0)) => WithinTotal(metadata)

\* C22 witness: a directory validation on a validator that already held a
\* directly saved warning ended by raising after it had validated a file
C22_Witness ==
    /\ DirectoryRun
    /\ pc = "idle"
    /\ metadata0.warning >= 1
    /\ metadata0.total = 0
    /\ last.call = "validate"
    /\ last.ret.raised
    /\ metadata.total > metadata0.total
    /\ WithinTotal(metadata)

====
